---- MODULE Spec2Model ----
(***************************************************************************)
(* Tool-augmented generation engine (backend/ai_generator.py) and the      *)
(* retrieval tools with their registry (backend/search_tools.py).          *)
(*                                                                         *)
(* Texts are sequences of string tokens: an f-string is the concatenation  *)
(* of its literal parts and its interpolated values.  Python's None is the *)
(* token "None" for scalars and the text NoneText for message contents.    *)
(***************************************************************************)
EXTENDS Integers, Sequences, FiniteSets, TLC

\* ------------------------------------------------------------------ bounds
MaxRounds == 2      \* MAX_TOOL_ROUNDS ranges over 0..MaxRounds
MaxChunks == 2      \* chunks in one search result set
MaxQueries == 3     \* queries made on one system

\* ------------------------------------------------------------- basic values
NoneText == <<"None">>

Truthy(v) == v \notin {"None", "", "0"}

\* The texts of a list of citations.
Texts(cited) == {cited[i].text : i \in 1..Len(cited)}

\* A text occurs inside another.
Contains(text, part) ==
    \E i \in 0..(Len(text) - Len(part)) : SubSeq(text, i + 1, i + Len(part)) = part

SearchName == "search_course_content"
OutlineName == "get_course_outline"
TrackerName == "tracker_tool"

\* Tool objects: the CourseSearchTool, the CourseOutlineTool, and four
\* other Tool implementations: one that keeps a last_sources list of its own
\* under its own name, one that declares the search tool's name, one whose
\* definition has no "name" key and one whose name is "".
ToolObjects == {"search1", "outline1", "tracker1", "samename", "noname", "emptyname"}

\* The tool classes that carry a last_sources attribute.
HasLastSources(t) == t \in {"search1", "tracker1"}

SourceTools == {t \in ToolObjects : HasLastSources(t)}

ToolKind(t) ==
    CASE t = "search1" -> "search"
      [] t = "outline1" -> "outline"
      [] OTHER -> "other"

\* tool.get_tool_definition().get("name")
DefinitionName(t) ==
    CASE ToolKind(t) = "search" -> SearchName
      [] ToolKind(t) = "outline" -> OutlineName
      [] t = "samename" -> SearchName
      [] t = "tracker1" -> TrackerName
      [] t = "emptyname" -> ""
      [] OTHER -> "None"

\* ------------------------------------------------------- ordered dictionary
\* self.tools is a dict: a sequence of <<name, tool>> pairs with unique names
\* in insertion order.
Keys(d) == {d[i][1] : i \in 1..Len(d)}

Lookup(d, k) == d[CHOOSE i \in 1..Len(d) : d[i][1] = k][2]

\* d[k] = v: a present key keeps its position, a new key goes last.
DictSet(d, k, v) ==
    IF k \in Keys(d)
    THEN [i \in 1..Len(d) |-> IF d[i][1] = k THEN <<k, v>> ELSE d[i]]
    ELSE Append(d, <<k, v>>)

\* ------------------------------------------------------------ search results
Courses == {"MCP", "RAG"}

\* One matched chunk: its document text and its metadata.
Chunks ==
    { [doc |-> "d1", course_title |-> "MCP", lesson_number |-> "1", lesson_link |-> "u1"],
      [doc |-> "d2", course_title |-> "MCP", lesson_number |-> "1", lesson_link |-> "None"],
      [doc |-> "d3", course_title |-> "RAG", lesson_number |-> "None", lesson_link |-> "u3"] }

RECURSIVE SeqsUpTo(_, _)
SeqsUpTo(S, n) ==
    IF n = 0 THEN {<<>>}
    ELSE LET shorter == SeqsUpTo(S, n - 1)
         IN shorter \cup {Append(s, x) : s \in {t \in shorter : Len(t) = n - 1}, x \in S}

\* VectorStore._resolve_course_name: the catalog titles a name may resolve to.
Resolvable(course_name) == IF course_name \in Courses THEN {course_name} ELSE {}

\* The chunks a filtered search may return.
Matching(course_name, lesson_number) ==
    {c \in Chunks :
        /\ ~Truthy(course_name) \/ c.course_title \in Resolvable(course_name)
        /\ lesson_number = "None" \/ c.lesson_number = lesson_number}

\* What self.store.search(query, course_name, lesson_number) can do: raise,
\* return a SearchResults whose error field is set (the search failed, or the
\* course name resolved to nothing), or return the matched chunks (if any).
SearchOutcomes(course_name, lesson_number) ==
    {[kind |-> "raise", error |-> <<"DB Error">>, chunks |-> <<>>]}
    \cup {[kind |-> "error", error |-> <<"Search error: ", "DB Error">>, chunks |-> <<>>]}
    \cup (IF Truthy(course_name) /\ Resolvable(course_name) = {}
          THEN {[kind |-> "error",
                 error |-> <<"No course found matching '", course_name, "'">>,
                 chunks |-> <<>>]}
          ELSE {[kind |-> "ok", error |-> NoneText, chunks |-> c] :
                   c \in SeqsUpTo(Matching(course_name, lesson_number), MaxChunks)})

\* ------------------------------------------------- CourseSearchTool._format
\* A plausible slip: the lesson part of the header is left out.
Header_NoLesson(meta) == <<"[", meta.course_title, "]">>

Header(meta) ==
    <<"[", meta.course_title>>
    \o (IF meta.lesson_number # "None" THEN <<" - Lesson ", meta.lesson_number>> ELSE <<>>)
    \o <<"]">>

SourceText(meta) ==
    <<meta.course_title>>
    \o (IF meta.lesson_number # "None" THEN <<" - Lesson ", meta.lesson_number>> ELSE <<>>)

\* A plausible slip: the link is part of the key, so two chunks of one lesson
\* with different links are both cited.
SourceKey_WithLink(meta) == <<meta.course_title, meta.lesson_number, meta.lesson_link>>

SourceKey(meta) == <<meta.course_title, meta.lesson_number>>

\* A plausible slip: the url is set whether or not the chunk has a link.
SourceObj_AlwaysUrl(meta) == [text |-> SourceText(meta), url |-> meta.lesson_link]

\* source_obj
SourceObj(meta) ==
    IF Truthy(meta.lesson_link)
    THEN [text |-> SourceText(meta), url |-> meta.lesson_link]
    ELSE [text |-> SourceText(meta)]

\* The loop of _format_results over the first n chunks: the sources list.
RECURSIVE Sources(_, _)
Sources(chunks, n) ==
    IF n = 0 THEN <<>>
    ELSE LET prev == Sources(chunks, n - 1)
             seen_sources == {SourceKey(chunks[i]) : i \in 1..(n - 1)}
         IN IF SourceKey(chunks[n]) \notin seen_sources
            THEN Append(prev, SourceObj(chunks[n]))
            ELSE prev

\* "\n\n".join(formatted) over the first n blocks.
RECURSIVE Formatted(_, _)
Formatted(chunks, n) ==
    IF n = 0 THEN <<>>
    ELSE (IF n = 1 THEN <<>> ELSE Formatted(chunks, n - 1) \o <<"\n\n">>)
         \o Header(chunks[n]) \o <<"\n", chunks[n].doc>>

\* ------------------------------------------------------ Python call binding
\* tool.execute(**kwargs): a keyword that is no parameter, or a missing
\* required parameter, raises TypeError before the body runs.
Binds(kwargs, params, required) ==
    /\ DOMAIN kwargs \subseteq params
    /\ required \subseteq DOMAIN kwargs

\* The value a parameter is bound to (its default is None).
Arg(kwargs, p) == IF p \in DOMAIN kwargs THEN kwargs[p] ELSE "None"

Returned(text) == [raised |-> FALSE, value |-> text]
Raised(text) == [raised |-> TRUE, value |-> text]

NoOutcome == [kind |-> "unused"]

\* ------------------------------------------------- CourseSearchTool.execute
SearchParams == {"query", "course_name", "lesson_number"}

FilterInfo(course_name, lesson_number) ==
    (IF Truthy(course_name) THEN <<" in course '", course_name, "'">> ELSE <<>>)
    \o (IF Truthy(lesson_number) THEN <<" in lesson ", lesson_number>> ELSE <<>>)

\* The result of execute(**kwargs) when self.store.search does `out`.
SearchExecute(kwargs, out) ==
    IF ~Binds(kwargs, SearchParams, {"query"}) THEN Raised(<<"TypeError">>)
    ELSE IF out.kind = "raise" THEN Raised(out.error)
    ELSE IF out.kind = "error" THEN Returned(out.error)
    ELSE IF out.chunks = <<>>
         THEN Returned(<<"No relevant content found">>
                       \o FilterInfo(Arg(kwargs, "course_name"), Arg(kwargs, "lesson_number"))
                       \o <<".">>)
    ELSE Returned(Formatted(out.chunks, Len(out.chunks)))

\* A plausible slip: the sources of a search are added to the earlier ones.
SearchLastSources_Extend(kwargs, out, old) ==
    IF /\ Binds(kwargs, SearchParams, {"query"})
       /\ out.kind = "ok"
       /\ out.chunks # <<>>
    THEN old \o Sources(out.chunks, Len(out.chunks))
    ELSE old

\* The calls execute makes on the store: the one search.
SearchStoreCalls(kwargs, out) ==
    IF ~Binds(kwargs, SearchParams, {"query"}) THEN <<>> ELSE <<"search">>

\* self.last_sources after that call, `old` being its value before.
SearchLastSources(kwargs, out, old) ==
    IF /\ Binds(kwargs, SearchParams, {"query"})
       /\ out.kind = "ok"
       /\ out.chunks # <<>>
    THEN Sources(out.chunks, Len(out.chunks))
    ELSE old

\* ------------------------------------------------ CourseOutlineTool.execute
OutlineParams == {"course_title"}

\* Catalog records as course_catalog.get returns them: lessons_json decoded
\* is a list of lessons in stored order, or cannot be decoded.
Metadatas ==
    { [title |-> "MCP", course_link |-> "c1", instructor |-> "John",
       lessons_json |-> [decodes |-> TRUE,
                         lessons |-> << [lesson_number |-> "1", lesson_title |-> "Intro"],
                                        [lesson_number |-> "2", lesson_title |-> "Setup"] >>]],
      [title |-> "RAG", course_link |-> "", instructor |-> "Jane",
       lessons_json |-> [decodes |-> TRUE,
                         lessons |-> << [lesson_number |-> "2", lesson_title |-> "Vectors"],
                                        [lesson_number |-> "1", lesson_title |-> "Basics"] >>]],
      [title |-> "RAG", course_link |-> "", instructor |-> "Jane",
       lessons_json |-> [decodes |-> FALSE, lessons |-> <<>>]] }

\* What the store can do for the outline tool: _resolve_course_name raises,
\* finds nothing or finds a title; course_catalog.get then raises, returns
\* nothing, returns empty metadata or returns the record.
OutlineOutcomes ==
    {[kind |-> "resolve_raise"], [kind |-> "unresolved"],
     [kind |-> "get_raise", title |-> "MCP"],
     [kind |-> "get_none", title |-> "MCP"],
     [kind |-> "get_empty", title |-> "MCP"]}
    \cup {[kind |-> "record", title |-> m.title, metadata |-> m] : m \in Metadatas}

RECURSIVE LessonLines(_, _)
LessonLines(lessons, n) ==
    IF n = 0 THEN <<>>
    ELSE LessonLines(lessons, n - 1)
         \o <<"\n", "  Lesson ", lessons[n].lesson_number, ": ", lessons[n].lesson_title>>

NumStr(n) == ToString(n)

Outline(m) ==
    LET lessons == m.lessons_json.lessons
    IN <<"Course: ", m.title, "\n", "Instructor: ", m.instructor>>
       \o (IF Truthy(m.course_link) THEN <<"\n", "Course Link: ", m.course_link>> ELSE <<>>)
       \o <<"\n", "\nTotal Lessons: ", NumStr(Len(lessons))>>
       \o <<"\n", "\nLessons:">>
       \o LessonLines(lessons, Len(lessons))

\* The calls execute makes on the store: the resolution of the name and,
\* when that gave a title, the catalog lookup.
OutlineStoreCalls(kwargs, out) ==
    IF ~Binds(kwargs, OutlineParams, {"course_title"}) THEN <<>>
    ELSE IF out.kind \in {"resolve_raise", "unresolved"} THEN <<"_resolve_course_name">>
    ELSE <<"_resolve_course_name", "course_catalog.get">>

\* A plausible slip: the catalog is asked even when no title was resolved.
OutlineExecute_NoResolveCheck(kwargs, out) ==
    IF ~Binds(kwargs, OutlineParams, {"course_title"}) THEN Raised(<<"TypeError">>)
    ELSE IF out.kind = "resolve_raise" THEN Raised(<<"DB Error">>)
    ELSE IF out.kind \in {"get_none", "get_empty", "unresolved"}
         THEN Returned(<<"Error retrieving metadata for course: ",
                         IF out.kind = "unresolved" THEN "None" ELSE out.title>>)
    ELSE IF out.kind = "get_raise"
         THEN Returned(<<"Error retrieving course outline: ", "DB Error">>)
    ELSE IF ~out.metadata.lessons_json.decodes
         THEN Returned(<<"Error retrieving course outline: ", "JSONDecodeError">>)
    ELSE Returned(Outline(out.metadata))

OutlineExecute(kwargs, out) ==
    IF ~Binds(kwargs, OutlineParams, {"course_title"}) THEN Raised(<<"TypeError">>)
    ELSE IF out.kind = "resolve_raise" THEN Raised(<<"DB Error">>)
    ELSE IF out.kind = "unresolved"
         THEN Returned(<<"No course found matching '", kwargs.course_title, "'">>)
    ELSE IF out.kind = "get_raise"
         THEN Returned(<<"Error retrieving course outline: ", "DB Error">>)
    ELSE IF out.kind \in {"get_none", "get_empty"}
         THEN Returned(<<"Error retrieving metadata for course: ", out.title>>)
    ELSE IF ~out.metadata.lessons_json.decodes
         THEN Returned(<<"Error retrieving course outline: ", "JSONDecodeError">>)
    ELSE Returned(Outline(out.metadata))

\* -------------------------------------------------------------- ToolManager
\* What the other source-tracking tool stores in its last_sources when run.
TrackedSources == <<[text |-> <<"tracked">>]>>

\* The outcomes the store can produce for one execute_tool call.
ToolOutcomes(reg, tool_name, kwargs) ==
    IF tool_name \notin Keys(reg) THEN {NoOutcome}
    ELSE LET kind == ToolKind(Lookup(reg, tool_name))
         IN IF kind = "search"
            THEN IF Binds(kwargs, SearchParams, {"query"})
                 THEN SearchOutcomes(Arg(kwargs, "course_name"), Arg(kwargs, "lesson_number"))
                 ELSE {NoOutcome}
            ELSE IF kind = "outline" /\ Binds(kwargs, OutlineParams, {"course_title"})
                 THEN OutlineOutcomes
                 ELSE {NoOutcome}

\* A plausible slip: no membership test, so an unknown name is a KeyError.
ExecuteToolResult_NoCheck(reg, tool_name, kwargs, out) ==
    IF tool_name \notin Keys(reg)
    THEN Raised(<<"KeyError">>)
    ELSE LET kind == ToolKind(Lookup(reg, tool_name))
         IN IF kind = "search" THEN SearchExecute(kwargs, out)
            ELSE IF kind = "outline" THEN OutlineExecute(kwargs, out)
            ELSE Returned(<<"other result">>)

\* ToolManager.execute_tool(tool_name, **kwargs): what the call returns or raises.
ExecuteToolResult(reg, tool_name, kwargs, out) ==
    IF tool_name \notin Keys(reg)
    THEN Returned(<<"Tool '", tool_name, "' not found">>)
    ELSE LET kind == ToolKind(Lookup(reg, tool_name))
         IN IF kind = "search" THEN SearchExecute(kwargs, out)
            ELSE IF kind = "outline" THEN OutlineExecute(kwargs, out)
            ELSE Returned(<<"other result">>)

\* A plausible slip: a tool that tracks no sources wipes the tracked ones.
ExecuteToolSources_Wipe(reg, ls, tool_name, kwargs, out) ==
    IF tool_name \notin Keys(reg) THEN ls
    ELSE LET t == Lookup(reg, tool_name)
         IN IF ToolKind(t) = "search"
            THEN [ls EXCEPT ![t] = SearchLastSources(kwargs, out, ls[t])]
            ELSE IF HasLastSources(t) THEN [ls EXCEPT ![t] = TrackedSources]
            ELSE [u \in DOMAIN ls |-> <<>>]

\* ... and every tool's last_sources after it.
ExecuteToolSources(reg, ls, tool_name, kwargs, out) ==
    IF tool_name \notin Keys(reg) THEN ls
    ELSE LET t == Lookup(reg, tool_name)
         IN IF ToolKind(t) = "search"
            THEN [ls EXCEPT ![t] = SearchLastSources(kwargs, out, ls[t])]
            ELSE IF HasLastSources(t) THEN [ls EXCEPT ![t] = TrackedSources]
            ELSE ls

\* The store failed during the call: it raised, or its search caught the
\* failure and reported it in the result's error field.
RetrievalFailed(out) ==
    \/ out.kind \in {"raise", "resolve_raise", "get_raise"}
    \/ out.kind = "error" /\ out.error[1] = "Search error: "

\* The citations that call stored in the executed tool (none: <<>>).
StoredSources(reg, tool_name, kwargs, out) ==
    LET none == [t \in SourceTools |-> <<>>]
        after == ExecuteToolSources(reg, none, tool_name, kwargs, out)
    IN IF after = none THEN <<>>
       ELSE after[CHOOSE t \in SourceTools : after[t] # <<>>]

\* ... and the calls the executed tool made on the store.
ExecuteToolStoreCalls(reg, tool_name, kwargs, out) ==
    IF tool_name \notin Keys(reg) THEN <<>>
    ELSE LET kind == ToolKind(Lookup(reg, tool_name))
         IN IF kind = "search" THEN SearchStoreCalls(kwargs, out)
            ELSE IF kind = "outline" THEN OutlineStoreCalls(kwargs, out)
            ELSE <<>>

\* ToolManager.get_last_sources()
RECURSIVE FirstSources(_, _, _)
FirstSources(reg, ls, i) ==
    IF i > Len(reg) THEN <<>>
    ELSE IF HasLastSources(reg[i][2]) /\ ls[reg[i][2]] # <<>> THEN ls[reg[i][2]]
    ELSE FirstSources(reg, ls, i + 1)

\* A plausible slip: the scan keeps the last tool that holds sources.
GetLastSources_LastHolder(reg, ls) ==
    LET holding == {i \in 1..Len(reg) : HasLastSources(reg[i][2]) /\ ls[reg[i][2]] # <<>>}
    IN IF holding = {} THEN <<>>
       ELSE ls[reg[CHOOSE i \in holding : \A j \in holding : j <= i][2]]

GetLastSources(reg, ls) == FirstSources(reg, ls, 1)

\* A plausible slip: reset_sources leaves every list as it is.
ResetSourcesOf_Keep(reg, ls) == ls

\* ToolManager.reset_sources()
ResetSourcesOf(reg, ls) ==
    [t \in DOMAIN ls |->
        IF \E i \in 1..Len(reg) : reg[i][2] = t THEN <<>> ELSE ls[t]]

\* ==================================================================== state
VARIABLES
    tools,            \* ToolManager.tools
    last_sources,     \* last_sources of every tool object that has one
    op,               \* the last call made on the registry and its result
    MAX_TOOL_ROUNDS,  \* config.MAX_TOOL_ROUNDS
    pc,               \* where generate_response stands
    call,             \* the arguments of the running generate_response call
    messages,         \* the transcript
    response,         \* the model response being handled
    round_number,     \* the loop variable of _handle_tool_execution
    tool_index,       \* the position of the inner loop over tool_calls
    result,           \* what generate_response returned
    events,           \* model calls and execute_tool calls, in order
    sessions,         \* SessionManager: the exchanges kept for each session id
    appended,         \* every exchange ever appended under each session id
    reqs,             \* the query requests: where each stands, what it holds
    asked             \* the number of queries made so far

registryVars == <<tools, last_sources>>
engineVars ==
    <<MAX_TOOL_ROUNDS, pc, call, messages, response, round_number, tool_index,
      result, events>>
queryVars == <<sessions, appended, reqs, asked>>
vars == <<tools, last_sources, op, MAX_TOOL_ROUNDS, pc, call, messages, response,
          round_number, tool_index, result, events, sessions, appended, reqs, asked>>

NoOp == [name |-> "none"]
NoResponse == [content |-> NoneText, tool_calls |-> <<>>]
NoCall ==
    [query |-> NoneText, conversation_history |-> NoneText, tools |-> FALSE,
     tool_manager |-> FALSE]

\* ToolManager() with the tool objects constructed but not registered.
EmptyRegistry ==
    /\ tools = <<>>
    /\ last_sources = [t \in SourceTools |-> <<>>]
    /\ op = NoOp

EngineIdle ==
    /\ pc = "idle"
    /\ call = NoCall
    /\ messages = <<>>
    /\ response = NoResponse
    /\ round_number = 0
    /\ tool_index = 0
    /\ result = NoneText
    /\ events = <<>>

\* The session ids in use, and the request slots a server thread may run.
SessionIds == {"A", "B"}
Requests == {"r1", "r2"}

NoRequest ==
    [pc |-> "idle", query |-> NoneText, session_id |-> "None", history |-> NoneText,
     response |-> NoneText, sources |-> <<>>, searched |-> FALSE, produced |-> <<>>,
     outcome |-> "none", alone |-> TRUE, clean |-> TRUE]

\* RAGSystem(config): no session has history, no query is running.
QueryIdle ==
    /\ sessions = [sid \in SessionIds |-> <<>>]
    /\ appended = [sid \in SessionIds |-> <<>>]
    /\ reqs = [r \in Requests |-> NoRequest]
    /\ asked = 0

\* ============================================== operations on the registry
ToolNames == {SearchName, OutlineName, TrackerName, "nonexistent_tool"}

\* Keyword arguments a caller may pass: well formed ones for either tool,
\* a missing required argument, an unexpected name, a wrongly typed value.
KwargsSet ==
    { [query |-> "q"],
      [query |-> "q", course_name |-> "MCP"],
      [query |-> "q", lesson_number |-> "0"],
      [query |-> "q", course_name |-> "MCP", lesson_number |-> "1"],
      [query |-> "q", course_name |-> "Nope"],
      [query |-> "q", lesson_number |-> "three"],
      [course_name |-> "MCP"],
      [query |-> "q", param |-> "value"],
      [course_title |-> "MCP"] }

\* A plausible slip: only a missing name is refused, an empty one is not.
NameMissing_OnlyNone(tool_name) == tool_name = "None"

\* `if not tool_name` in register_tool
NameMissing(tool_name) == ~Truthy(tool_name)

\* ToolManager.register_tool(tool)
RegisterTool(t) ==
    LET tool_name == DefinitionName(t)
    IN /\ IF NameMissing(tool_name)
          THEN /\ op' = [name |-> "register_tool", tool |-> t, raised |-> TRUE,
                         value |-> <<"ValueError">>]
               /\ tools' = tools
          ELSE /\ op' = [name |-> "register_tool", tool |-> t, raised |-> FALSE,
                         value |-> NoneText]
               /\ tools' = DictSet(tools, tool_name, t)
       /\ UNCHANGED <<last_sources, engineVars, queryVars>>

\* ToolManager.execute_tool(tool_name, **kwargs), called directly.
ExecuteTool(tool_name, kwargs, out) ==
    LET r == ExecuteToolResult(tools, tool_name, kwargs, out)
    IN /\ op' = [name |-> "execute_tool", tool_name |-> tool_name, kwargs |-> kwargs,
                 out |-> out, registered |-> tool_name \in Keys(tools),
                 tool |-> IF tool_name \in Keys(tools) THEN Lookup(tools, tool_name)
                          ELSE "None",
                 raised |-> r.raised, value |-> r.value,
                 sources_before |-> last_sources,
                 store_calls |-> ExecuteToolStoreCalls(tools, tool_name, kwargs, out)]
       /\ last_sources' = ExecuteToolSources(tools, last_sources, tool_name, kwargs, out)
       /\ UNCHANGED <<tools, engineVars, queryVars>>

\* ToolManager.get_last_sources()
GetLastSourcesCall ==
    /\ op' = [name |-> "get_last_sources", raised |-> FALSE,
              value |-> GetLastSources(tools, last_sources)]
    /\ UNCHANGED <<tools, last_sources, engineVars, queryVars>>

\* ToolManager.reset_sources()
ResetSources ==
    /\ op' = [name |-> "reset_sources", raised |-> FALSE, value |-> NoneText]
    /\ last_sources' = ResetSourcesOf(tools, last_sources)
    /\ UNCHANGED <<tools, engineVars, queryVars>>

InitTools ==
    /\ EmptyRegistry
    /\ MAX_TOOL_ROUNDS = 2
    /\ EngineIdle
    /\ QueryIdle

NextTools ==
    \/ \E t \in ToolObjects : RegisterTool(t)
    \/ \E n \in ToolNames, kw \in KwargsSet :
          \E out \in ToolOutcomes(tools, n, kw) : ExecuteTool(n, kw, out)
    \/ GetLastSourcesCall
    \/ ResetSources

SpecTools == InitTools /\ [][NextTools]_vars

\* ======================================================= AIGenerator (engine)
SYSTEM_PROMPT == <<"SYSTEM_PROMPT">>

\* The registry RAGSystem hands to the engine: the search tool and the
\* outline tool, registered in that order.
StandardRegistry ==
    /\ tools = <<<<SearchName, "search1">>, <<OutlineName, "outline1">>>>
    /\ last_sources = [t \in SourceTools |-> <<>>]
    /\ op = NoOp

\* function.arguments of a requested call: a JSON text that decodes to a
\* dict of keyword arguments, or one that json.loads rejects.
Json(kwargs) == [decodes |-> TRUE, kwargs |-> kwargs]
BadJson == [decodes |-> FALSE, kwargs |-> <<>>]

SearchCall == [name |-> SearchName, arguments |-> Json([query |-> "q"])]
OutlineCall == [name |-> OutlineName, arguments |-> Json([course_title |-> "MCP"])]
BadJsonCall == [name |-> SearchName, arguments |-> BadJson]
UnknownCall == [name |-> "nonexistent_tool", arguments |-> Json([query |-> "q"])]
NoQueryCall == [name |-> SearchName, arguments |-> Json([course_name |-> "MCP"])]

\* The tool requests one model response may carry.
ToolCallLists ==
    { <<SearchCall>>, <<OutlineCall>>, <<BadJsonCall>>, <<UnknownCall>>, <<NoQueryCall>>,
      <<SearchCall, SearchCall>>, <<OutlineCall, SearchCall>>,
      <<BadJsonCall, SearchCall>>, <<SearchCall, BadJsonCall>> }

CallId(k, i) == 10 * k + i

\* The text of the model's k-th response.
Answer(k) == <<"answer ", NumStr(k)>>

\* The responses the model may give to the k-th call: plain text, or (only
\* when the request carried a tool catalog) tool requests with null content.
Replies(k, with_tools) ==
    {[content |-> Answer(k), tool_calls |-> <<>>]}
    \cup (IF with_tools
          THEN {[content |-> NoneText,
                 tool_calls |-> [i \in 1..Len(l) |->
                    [id |-> CallId(k, i), type |-> "function",
                     name |-> l[i].name, arguments |-> l[i].arguments]]] :
                  l \in ToolCallLists}
          ELSE {})

\* The store outcomes exercised by tool calls the engine makes: result sets
\* of at most one chunk, and for the outline one decodable record.
EngineOutcomes(tool_name, kwargs) ==
    {out \in ToolOutcomes(tools, tool_name, kwargs) :
        CASE out.kind = "ok" -> Len(out.chunks) <= 1 /\ \A j \in 1..Len(out.chunks) :
                                                           Truthy(out.chunks[j].lesson_link)
          [] out.kind = "record" -> out.metadata.title = "MCP"
          [] out.kind \in {"get_raise", "get_none", "get_empty"} -> FALSE
          [] OTHER -> TRUE}

ModelCalls == SelectSeq(events, LAMBDA e : e.kind = "model_call")
NumModelCalls == Len(ModelCalls)
ToolEvents == SelectSeq(events, LAMBDA e : e.kind = "execute_tool")

\* range(1, config.MAX_TOOL_ROUNDS + 1) has a value for this iteration
InRange(r) == r <= MAX_TOOL_ROUNDS

\* A plausible slip: > for >=, so the last allowed round is not recognised.
LastAllowedRound_OffByOne(r) == r > MAX_TOOL_ROUNDS

\* `if round_number >= config.MAX_TOOL_ROUNDS`
LastAllowedRound(r) == r >= MAX_TOOL_ROUNDS

\* A plausible slip: a loop whose counter is never advanced.
NextRound_Stuck(r) == r

\* the for statement advancing round_number
NextRound(r) == r + 1

\* A plausible slip: the message object is returned instead of its content.
ReturnValue_Message(content) == <<"ChatCompletionMessage">>

\* `return response.choices[0].message.content`
ReturnValue(content) == content

\* A plausible slip: a failed model call is issued again.
AfterModelFailure_Retry(p) == p

\* No create(...) call is guarded: its exception leaves generate_response.
AfterModelFailure(p) == "raised"

\* A plausible slip: the except clause goes on with the next tool call.
AfterToolError_Continue(i, n) == IF i < n THEN "exec" ELSE "round_end"

\* The except clause ends with the final call and a return.
AfterToolError(i, n) == "error_call"

\* The query and the conversation histories generate_response is called
\* with: None, the empty string, and a rendered exchange.
Query == <<"query">>
Histories ==
    { NoneText, <<>>, <<"User: ", "What is MCP?", "\n", "AI: ", "MCP is a protocol.">> }

\* `if conversation_history`: neither None nor the empty string
Supplied(conversation_history) ==
    conversation_history # NoneText /\ conversation_history # <<>>

PreviousConversation == <<"\n\n", "Previous conversation:", "\n">>

\* A plausible slip: the history is formatted in without the test for it.
SystemContent_Always(conversation_history) ==
    SYSTEM_PROMPT \o PreviousConversation \o conversation_history

\* system_content
SystemContent(conversation_history) ==
    IF Supplied(conversation_history)
    THEN SYSTEM_PROMPT \o PreviousConversation \o conversation_history
    ELSE SYSTEM_PROMPT

\* generate_response(query, conversation_history, tools, tool_manager) up to
\* the first create(...) call.
GenerateResponse(conversation_history, with_tools, with_manager) ==
    /\ pc = "idle"
    /\ call' = [query |-> Query, conversation_history |-> conversation_history,
                tools |-> with_tools, tool_manager |-> with_manager]
    /\ messages' = << [role |-> "system", content |-> SystemContent(conversation_history)],
                      [role |-> "user", content |-> Query] >>
    /\ pc' = "first_call"
    /\ UNCHANGED <<queryVars, tools, last_sources, op, MAX_TOOL_ROUNDS, response, round_number,
                   tool_index, result, events>>

\* A plausible slip: only the first create(...) call carries the tools.
CarriesTools_FirstOnly == pc = "first_call" /\ call.tools

\* Whether the create(...) call about to be made carries the tool catalog.
CarriesTools ==
    CASE pc = "first_call" -> call.tools
      [] pc = "round_end" -> call.tools /\ ~LastAllowedRound(round_number)
      [] OTHER -> FALSE

ToolChoice ==
    CASE pc = "first_call" -> IF call.tools THEN "auto" ELSE "absent"
      [] pc = "round_end" -> IF LastAllowedRound(round_number) THEN "absent" ELSE "auto"
      [] OTHER -> "absent"

\* The record of one create(...) call: what the request carried, whether it
\* answered, and the answer's content and number of tool requests.
ModelCallEvent(ok, reply) ==
    [kind |-> "model_call", tools |-> CarriesTools, tool_choice |-> ToolChoice,
     nmsgs |-> Len(messages), ok |-> ok, content |-> reply.content,
     requested |-> Len(reply.tool_calls)]

\* Any create(...) call raises.
ModelCallFails ==
    /\ pc \in {"first_call", "round_end", "error_call"}
    /\ events' = Append(events, ModelCallEvent(FALSE, NoResponse))
    /\ pc' = AfterModelFailure(pc)
    /\ UNCHANGED <<queryVars, tools, last_sources, op, MAX_TOOL_ROUNDS, call, messages, response,
                   round_number, tool_index, result>>

\* The first create(...) call answers; generate_response returns its text or
\* enters _handle_tool_execution.
FirstCall(reply) ==
    /\ pc = "first_call"
    /\ events' = Append(events, ModelCallEvent(TRUE, reply))
    /\ response' = reply
    /\ IF reply.tool_calls # <<>> /\ call.tool_manager
       THEN /\ pc' = "loop"
            /\ round_number' = 1
            /\ result' = result
       ELSE /\ pc' = "done"
            /\ result' = ReturnValue(reply.content)
            /\ round_number' = round_number
    /\ UNCHANGED <<queryVars, tools, last_sources, op, MAX_TOOL_ROUNDS, call, messages, tool_index>>

\* The for loop has no further round: the last response's content is returned.
LoopExhausted ==
    /\ pc = "loop"
    /\ ~InRange(round_number)
    /\ result' = ReturnValue(response.content)
    /\ pc' = "done"
    /\ UNCHANGED <<queryVars, tools, last_sources, op, MAX_TOOL_ROUNDS, call, messages, response,
                   round_number, tool_index, events>>

\* The response at the head of a round requests no tool: its text is returned.
ReturnText ==
    /\ pc = "loop"
    /\ InRange(round_number)
    /\ response.tool_calls = <<>>
    /\ result' = ReturnValue(response.content)
    /\ pc' = "done"
    /\ UNCHANGED <<queryVars, tools, last_sources, op, MAX_TOOL_ROUNDS, call, messages, response,
                   round_number, tool_index, events>>

\* assistant_message.content or ""
OrEmpty(content) == IF content = NoneText THEN <<>> ELSE content

\* A plausible slip: every round starts by resetting the tools' sources.
BeginRound_Reset ==
    /\ pc = "loop"
    /\ InRange(round_number)
    /\ response.tool_calls # <<>>
    /\ messages' = Append(messages,
          [role |-> "assistant", content |-> OrEmpty(response.content),
           tool_calls |-> response.tool_calls])
    /\ tool_index' = 1
    /\ pc' = "exec"
    /\ last_sources' = ResetSourcesOf(tools, last_sources)
    /\ UNCHANGED <<queryVars, tools, op, MAX_TOOL_ROUNDS, call, response, round_number,
                   result, events>>

\* A plausible slip: every round starts again from the two opening messages.
BeginRound_FromBase ==
    /\ pc = "loop"
    /\ InRange(round_number)
    /\ response.tool_calls # <<>>
    /\ messages' = <<messages[1], messages[2],
                     [role |-> "assistant", content |-> OrEmpty(response.content),
                      tool_calls |-> response.tool_calls]>>
    /\ tool_index' = 1
    /\ pc' = "exec"
    /\ UNCHANGED <<queryVars, tools, last_sources, op, MAX_TOOL_ROUNDS, call, response, round_number,
                   result, events>>

\* A round begins: the assistant message with all tool requests is appended.
BeginRound ==
    /\ pc = "loop"
    /\ InRange(round_number)
    /\ response.tool_calls # <<>>
    /\ messages' = Append(messages,
          [role |-> "assistant", content |-> OrEmpty(response.content),
           tool_calls |-> response.tool_calls])
    /\ tool_index' = 1
    /\ pc' = "exec"
    /\ UNCHANGED <<queryVars, tools, last_sources, op, MAX_TOOL_ROUNDS, call, response, round_number,
                   result, events>>

\* A plausible slip: the tool message is not tagged with its call's id.
ToolMessage_Untagged(id, content) == [role |-> "tool", tool_call_id |-> 0, content |-> content]

\* {"role": "tool", "tool_call_id": tool_call.id, "content": ...}
ToolMessage(id, content) == [role |-> "tool", tool_call_id |-> id, content |-> content]

\* json.loads raises on the arguments of the current tool call.
ToolArgumentsInvalid ==
    LET tc == response.tool_calls[tool_index]
    IN /\ pc = "exec"
       /\ tool_index \in 1..Len(response.tool_calls)
       /\ ~tc.arguments.decodes
       /\ messages' = Append(messages, ToolMessage(tc.id, <<"Error: ", "JSONDecodeError">>))
       /\ events' = Append(events, [kind |-> "tool_error", id |-> tc.id])
       /\ pc' = AfterToolError(tool_index, Len(response.tool_calls))
       /\ tool_index' = tool_index + 1
       /\ UNCHANGED <<queryVars, tools, last_sources, op, MAX_TOOL_ROUNDS, call, response,
                      round_number, result>>

\* The current tool call is executed through the tool manager; its result,
\* or the error it raised, is appended as a tool message.
ToolRuns(out) ==
    LET tc == response.tool_calls[tool_index]
        r == ExecuteToolResult(tools, tc.name, tc.arguments.kwargs, out)
        stored == StoredSources(tools, tc.name, tc.arguments.kwargs, out)
    IN /\ pc = "exec"
       /\ tc.arguments.decodes
       /\ last_sources' =
             ExecuteToolSources(tools, last_sources, tc.name, tc.arguments.kwargs, out)
       /\ tool_index' = tool_index + 1
       /\ IF r.raised
          THEN /\ messages' = Append(messages, ToolMessage(tc.id, <<"Error: ">> \o r.value))
               /\ events' = events
                     \o << [kind |-> "execute_tool", id |-> tc.id, name |-> tc.name,
                            raised |-> TRUE, sources |-> stored,
                            store_failed |-> RetrievalFailed(out)],
                           [kind |-> "tool_error", id |-> tc.id] >>
               /\ pc' = AfterToolError(tool_index, Len(response.tool_calls))
          ELSE /\ messages' = Append(messages, ToolMessage(tc.id, r.value))
               /\ events' = Append(events,
                     [kind |-> "execute_tool", id |-> tc.id, name |-> tc.name,
                      raised |-> FALSE, sources |-> stored,
                      store_failed |-> RetrievalFailed(out)])
               /\ pc' = IF tool_index < Len(response.tool_calls) THEN "exec" ELSE "round_end"
       /\ UNCHANGED <<queryVars, tools, op, MAX_TOOL_ROUNDS, call, response, round_number, result>>

\* The final create(...) call of the except clause answers: no tools, and
\* its text is returned.
ErrorCall(reply) ==
    /\ pc = "error_call"
    /\ events' = Append(events, ModelCallEvent(TRUE, reply))
    /\ result' = ReturnValue(reply.content)
    /\ pc' = "done"
    /\ UNCHANGED <<queryVars, tools, last_sources, op, MAX_TOOL_ROUNDS, call, messages, response,
                   round_number, tool_index>>

\* A plausible slip (the order the docstring gives): the follow-up call with
\* tools is made first, and only then the final call without tools.
FinalCall_AfterFollowUp(reply) ==
    /\ pc = "round_end"
    /\ LastAllowedRound(round_number)
    /\ events' = events
          \o << [kind |-> "model_call", tools |-> call.tools, tool_choice |-> "auto",
                 nmsgs |-> Len(messages), ok |-> TRUE, content |-> reply.content,
                 requested |-> 0],
                ModelCallEvent(TRUE, reply) >>
    /\ result' = ReturnValue(reply.content)
    /\ pc' = "done"
    /\ UNCHANGED <<queryVars, tools, last_sources, op, MAX_TOOL_ROUNDS, call, messages, response,
                   round_number, tool_index>>

\* All tools of the last allowed round ran: the final create(...) call is
\* made without tools and its text is returned.
FinalCall(reply) ==
    /\ pc = "round_end"
    /\ LastAllowedRound(round_number)
    /\ events' = Append(events, ModelCallEvent(TRUE, reply))
    /\ result' = ReturnValue(reply.content)
    /\ pc' = "done"
    /\ UNCHANGED <<queryVars, tools, last_sources, op, MAX_TOOL_ROUNDS, call, messages, response,
                   round_number, tool_index>>

\* All tools of an earlier round ran: the next create(...) call is made with
\* the tools, and the loop goes to its next round with that response.
FollowUpCall(reply) ==
    /\ pc = "round_end"
    /\ ~LastAllowedRound(round_number)
    /\ events' = Append(events, ModelCallEvent(TRUE, reply))
    /\ response' = reply
    /\ round_number' = NextRound(round_number)
    /\ pc' = "loop"
    /\ UNCHANGED <<queryVars, tools, last_sources, op, MAX_TOOL_ROUNDS, call, messages, tool_index,
                   result>>

Init ==
    /\ StandardRegistry
    /\ MAX_TOOL_ROUNDS \in 0..MaxRounds
    /\ EngineIdle
    /\ QueryIdle

Next ==
    \/ \E conversation_history \in Histories, with_tools \in BOOLEAN,
          with_manager \in BOOLEAN :
          GenerateResponse(conversation_history, with_tools, with_manager)
    \/ ModelCallFails
    \/ \E reply \in Replies(NumModelCalls + 1, CarriesTools) : FirstCall(reply)
    \/ LoopExhausted
    \/ ReturnText
    \/ BeginRound
    \/ ToolArgumentsInvalid
    \/ /\ pc = "exec"
       /\ \E out \in EngineOutcomes(response.tool_calls[tool_index].name,
                                    response.tool_calls[tool_index].arguments.kwargs) :
             ToolRuns(out)
    \/ \E reply \in Replies(NumModelCalls + 1, CarriesTools) : ErrorCall(reply)
    \/ \E reply \in Replies(NumModelCalls + 1, CarriesTools) : FinalCall(reply)
    \/ \E reply \in Replies(NumModelCalls + 1, CarriesTools) : FollowUpCall(reply)

Spec == Init /\ [][Next]_vars

\* Every model call and every tool execution completes: the step that is
\* enabled is eventually taken.
FairSpec == Spec /\ WF_vars(Next)

\* ================================================== properties of the engine
Terminated == pc \in {"done", "raised"}

ToolsEnabled == call.tools /\ call.tool_manager

\* The tool rounds begun: one assistant message opens each.
ToolRounds == Len(SelectSeq(messages, LAMBDA m : m.role = "assistant"))

ToolErrors == SelectSeq(events, LAMBDA e : e.kind = "tool_error")

AllRoundsUsed ==
    /\ NumModelCalls >= MAX_TOOL_ROUNDS
    /\ \A k \in 1..MAX_TOOL_ROUNDS : ModelCalls[k].ok /\ ModelCalls[k].requested > 0
    /\ ToolErrors = <<>>

C3_DirectAnswer ==
    (NumModelCalls >= 1 /\ ModelCalls[1].ok /\ ModelCalls[1].requested = 0)
    => /\ pc = "done"
       /\ NumModelCalls = 1
       /\ ToolEvents = <<>>
       /\ ToolRounds = 0
       /\ result = ModelCalls[1].content
       /\ result = Answer(1)

C3_Witness ==
    /\ pc = "done"
    /\ ToolsEnabled
    /\ ModelCalls[1].requested = 0
    /\ result = Answer(1)

\* C4: a generate_response call whose model calls and tool executions all
\* complete reaches a terminal state (text returned or exception raised), and
\* at most R tool rounds occur.
C4_Terminates ==
    /\ [](ToolRounds <= MAX_TOOL_ROUNDS)
    /\ (pc # "idle") ~> Terminated

C4_Witness ==
    /\ pc = "done"
    /\ MAX_TOOL_ROUNDS = MaxRounds
    /\ ToolRounds = MAX_TOOL_ROUNDS
    /\ NumModelCalls = MAX_TOOL_ROUNDS + 1

IsErrorMessage(m, id) ==
    /\ m.role = "tool"
    /\ m.tool_call_id = id
    /\ m.content[1] = "Error: "

\* C5: when decoding a tool call's arguments or executing the tool raises, a
\* tool message "Error: ..." with that call's id is appended, exactly one
\* further model call is made, without tools, its text is returned, and no
\* further tool is executed.
C5_ToolErrorShortCircuits ==
    \A i \in 1..Len(events) :
        events[i].kind = "tool_error"
        => /\ IsErrorMessage(messages[Len(messages)], events[i].id)
           /\ pc \in {"error_call", "done", "raised"}
           /\ Len(events) <= i + 1
           /\ (pc = "error_call") <=> (Len(events) = i)
           /\ \A j \in (i + 1)..Len(events) :
                 /\ events[j].kind = "model_call"
                 /\ ~events[j].tools
                 /\ events[j].tool_choice = "absent"
           /\ pc = "done" => result = events[i + 1].content

\* The first of two requested calls failed; the second was never executed.
C5_Witness ==
    /\ pc = "done"
    /\ Len(ToolErrors) = 1
    /\ Len(response.tool_calls) = 2
    /\ ToolErrors[1].id = response.tool_calls[1].id
    /\ ToolEvents = <<>>
    /\ result = Answer(2)

\* C6: a model call that fails, at any of the call sites, ends the
\* generate_response call with the failure: no model call and no tool
\* execution follows it, and nothing is returned.
C6_ModelFailurePropagates ==
    /\ \A i \in 1..Len(events) :
          (events[i].kind = "model_call" /\ ~events[i].ok)
          => (i = Len(events) /\ pc = "raised")
    /\ pc = "raised"
       => /\ events # <<>>
          /\ events[Len(events)].kind = "model_call"
          /\ ~events[Len(events)].ok
          /\ result = NoneText

\* The model call made after a tool error fails.
C6_Witness ==
    /\ pc = "raised"
    /\ ToolErrors # <<>>
    /\ NumModelCalls = 2

\* The tool executions of the call that stored citations.
StoringEvents == SelectSeq(ToolEvents, LAMBDA e : e.sources # <<>>)

\* C22: the engine never clears citations: at every point of a
\* generate_response call, and so when it ends on any path (direct answer,
\* tool rounds, error short-circuit, model failure), get_last_sources gives
\* the citations that the tools executed during the call recorded last, and
\* none if none recorded any.
C22_EngineKeepsCitations ==
    GetLastSources(tools, last_sources) =
        IF StoringEvents = <<>> THEN <<>>
        ELSE StoringEvents[Len(StoringEvents)].sources

\* A search recorded citations, the next requested call failed, and the
\* engine call ended after its final model call.
C22_Witness ==
    /\ pc = "done"
    /\ ToolErrors # <<>>
    /\ StoringEvents # <<>>
    /\ GetLastSources(tools, last_sources) # <<>>

\* C23: a retrieval failure during a tool execution the model requested is
\* handled as a malformed-arguments error is: a tool message with the call's
\* id that reports the error is appended, no further tool is executed, and
\* every model call after it carries no tools (it is the forced final call).
C23_RetrievalFailureShortCircuits ==
    \A i \in 1..Len(events) :
        (events[i].kind = "execute_tool" /\ events[i].store_failed)
        => /\ \E k \in 1..Len(messages) :
                 /\ messages[k].role = "tool"
                 /\ messages[k].tool_call_id = events[i].id
                 /\ messages[k].content[1] \in {"Error: ", "Search error: "}
           /\ \A j \in (i + 1)..Len(events) :
                 /\ events[j].kind # "execute_tool"
                 /\ events[j].kind = "model_call"
                    => ~events[j].tools /\ events[j].tool_choice = "absent"

\* The positions of the assistant messages of the transcript, and for one of
\* them the position where its round's messages end.
AssistantAt == {a \in 1..Len(messages) : messages[a].role = "assistant"}
RoundEnd(a) ==
    IF \E b \in AssistantAt : b > a
    THEN (CHOOSE b \in AssistantAt : b > a /\ \A c \in AssistantAt : c > a => b <= c) - 1
    ELSE Len(messages)

\* The transcript is the two opening messages followed by rounds: one
\* assistant message, then the tool messages of its requests 1..j in request
\* order, each tagged with its request's id; a round that is followed by
\* another has a tool message for every request.
RoundsInOrder ==
    /\ \A i \in 1..Len(messages) :
          messages[i].role = (IF i = 1 THEN "system" ELSE IF i = 2 THEN "user"
                              ELSE IF i \in AssistantAt THEN "assistant" ELSE "tool")
    /\ Len(messages) >= 3 => 3 \in AssistantAt
    /\ \A a \in AssistantAt :
          LET tcs == messages[a].tool_calls
          IN /\ tcs # <<>>
             /\ RoundEnd(a) - a <= Len(tcs)
             /\ RoundEnd(a) < Len(messages) => RoundEnd(a) - a = Len(tcs)
             /\ \A i \in (a + 1)..RoundEnd(a) :
                   messages[i].tool_call_id = tcs[i - a].id

\* A step that begins a round appends exactly the assistant message with all
\* requests of the response; a step that handles request k finds the results
\* of requests 1..k-1 appended and appends the tool message of request k.
OneAtATime ==
    /\ (pc = "loop" /\ pc' = "exec")
       => /\ Len(messages') = Len(messages) + 1
          /\ messages'[Len(messages')].role = "assistant"
          /\ messages'[Len(messages')].tool_calls = response.tool_calls
          /\ SubSeq(messages', 1, Len(messages)) = messages
    /\ (pc = "exec" /\ tool_index' # tool_index)
       => /\ tool_index' = tool_index + 1
          /\ Len(messages') = Len(messages) + 1
          /\ SubSeq(messages', 1, Len(messages)) = messages
          /\ messages'[Len(messages')].role = "tool"
          /\ messages'[Len(messages')].tool_call_id = response.tool_calls[tool_index].id
          /\ Len(messages) - tool_index + 1 \in AssistantAt
          /\ messages[Len(messages) - tool_index + 1].tool_calls = response.tool_calls
          /\ Len(ToolEvents') <= Len(ToolEvents) + 1
          /\ Len(ToolEvents') = Len(ToolEvents) + 1
             => ToolEvents'[Len(ToolEvents')].id = response.tool_calls[tool_index].id
    /\ messages' # messages => pc \in {"idle", "loop", "exec"}

\* C28: in every tool round the transcript grows by exactly one assistant
\* message carrying all tool requests of the response, then by one tool
\* message per handled request, in request order and tagged with the request's
\* id; the tools are executed one at a time, request k+1 only after the
\* result of request k was appended.
C28_RoundTranscriptOrder == [](RoundsInOrder) /\ [][OneAtATime]_vars

\* Two rounds: the first with two requests and their two results in order,
\* the second begun after them.
C28_Witness ==
    /\ Len(messages) >= 6
    /\ Len(messages[3].tool_calls) = 2
    /\ messages[4].role = "tool" /\ messages[4].tool_call_id = messages[3].tool_calls[1].id
    /\ messages[5].role = "tool" /\ messages[5].tool_call_id = messages[3].tool_calls[2].id
    /\ messages[6].role = "assistant"
    /\ Len(ToolEvents) >= 2

\* Every request of the latest round has its tool message and no tool call
\* raised; fewer than MAX_TOOL_ROUNDS rounds were made.
EarlierRoundSucceeded ==
    /\ AssistantAt # {}
    /\ LET a == CHOOSE b \in AssistantAt : \A c \in AssistantAt : c <= b
       IN Len(messages) - a = Len(messages[a].tool_calls)
    /\ ToolErrors = <<>>
    /\ ToolRounds < MAX_TOOL_ROUNDS

LastModelCall == ModelCalls[NumModelCalls]

\* The latest model call was a follow-up call with tools that answered with
\* text only.
FollowUpAnsweredText ==
    /\ NumModelCalls >= 2
    /\ LastModelCall.ok /\ LastModelCall.tools /\ LastModelCall.requested = 0

\* C29: after a round r < MAX_TOOL_ROUNDS in which no tool call raised, the
\* next model call carries the tool catalog of the first call with
\* tool_choice "auto" and the whole transcript; if its response requests no
\* tool, the next step returns its text and no model call follows.
C29_FollowUpCarriesTools ==
    /\ [](FollowUpAnsweredText /\ pc = "done" => result = LastModelCall.content)
    /\ [][/\ (EarlierRoundSucceeded /\ NumModelCalls' # NumModelCalls)
             => /\ NumModelCalls' = NumModelCalls + 1
                /\ ModelCalls'[NumModelCalls'].tools
                /\ ModelCalls'[NumModelCalls'].tools = ModelCalls[1].tools
                /\ ModelCalls'[NumModelCalls'].tool_choice = "auto"
                /\ ModelCalls'[NumModelCalls'].nmsgs = Len(messages)
          /\ (FollowUpAnsweredText /\ pc # "done")
             => /\ pc' = "done"
                /\ result' = LastModelCall.content
                /\ events' = events
          /\ pc = "done" => events' = events]_vars

\* One successful round below the limit, a follow-up call with tools and
\* "auto", and its text returned as the second and last model call.
C29_Witness ==
    /\ pc = "done"
    /\ ToolRounds = 1 /\ MAX_TOOL_ROUNDS = 2
    /\ ToolErrors = <<>>
    /\ NumModelCalls = 2
    /\ LastModelCall.tools /\ LastModelCall.tool_choice = "auto"
    /\ LastModelCall.requested = 0
    /\ result = LastModelCall.content

\* C30: the first model request consists of exactly two messages, a system
\* message and a user message holding the query; the system message is the
\* system instructions followed by "Previous conversation:" and the history
\* if a non-empty history was supplied, and is the bare system instructions
\* otherwise, so it contains "Previous conversation:" exactly in the first case.
C30_FirstRequestMessages ==
    pc # "idle"
    => /\ Len(messages) >= 2
       /\ pc = "first_call" => Len(messages) = 2
       /\ NumModelCalls >= 1 => ModelCalls[1].nmsgs = 2
       /\ messages[1].role = "system"
       /\ messages[2] = [role |-> "user", content |-> call.query]
       /\ Contains(messages[1].content, <<"Previous conversation:">>)
          <=> Supplied(call.conversation_history)
       /\ IF Supplied(call.conversation_history)
          THEN messages[1].content =
                  SYSTEM_PROMPT \o <<"\n\n", "Previous conversation:", "\n">>
                  \o call.conversation_history
          ELSE messages[1].content = SYSTEM_PROMPT

\* The first request was made with a history supplied, and its system
\* message carries it.
C30_Witness ==
    /\ NumModelCalls >= 1
    /\ Supplied(call.conversation_history)
    /\ Contains(messages[1].content,
                <<"Previous conversation:", "\n">> \o call.conversation_history)

\* The tool messages after position a, among the first n messages, that
\* carry the id.
ResultsFor(a, id, n) ==
    {i \in (a + 1)..n : messages[i].role = "tool" /\ messages[i].tool_call_id = id}

C34_TranscriptAppendOnly ==
    /\ [](pc # "idle"
          => /\ Len(messages) >= 2
             /\ messages[1] = [role |-> "system",
                               content |-> SystemContent(call.conversation_history)]
             /\ messages[2] = [role |-> "user", content |-> call.query]
             /\ \A c \in 1..NumModelCalls :
                   /\ ModelCalls[c].nmsgs <= Len(messages)
                   /\ c > 1 => ModelCalls[c - 1].nmsgs <= ModelCalls[c].nmsgs)
    /\ [][/\ pc # "idle"
             => /\ Len(messages') >= Len(messages)
                /\ SubSeq(messages', 1, Len(messages)) = messages
          /\ NumModelCalls' # NumModelCalls
             => /\ ModelCalls'[NumModelCalls'].nmsgs = Len(messages)
                /\ messages' = messages]_vars

\* Three model calls, each sent a longer transcript than the one before.
C34_Witness ==
    /\ NumModelCalls = 3
    /\ ModelCalls[1].nmsgs = 2
    /\ ModelCalls[1].nmsgs < ModelCalls[2].nmsgs
    /\ ModelCalls[2].nmsgs < ModelCalls[3].nmsgs
    /\ ModelCalls[3].nmsgs = Len(messages)

\* C35: for every round limit and with or without a tool manager, the text
\* generate_response returns is the content of a model response that carried
\* no tool requests.
C35_ReturnsPlainAnswer ==
    pc = "done"
    => \E c \in 1..NumModelCalls :
          /\ ModelCalls[c].ok
          /\ ModelCalls[c].requested = 0
          /\ ModelCalls[c].content = result

\* C37: after a generate_response call that executed the search tool more
\* than once, the citations collectable from the registry cover every
\* (course, lesson) pair whose chunk text a tool execution of that call
\* appended to the transcript.
C37_CitationsCoverAllSearches ==
    pc = "done"
    => \A k \in 1..Len(ToolEvents) :
          Texts(ToolEvents[k].sources) \subseteq Texts(GetLastSources(tools, last_sources))

\* ================================================= properties of the registry
IsExecute(o) == o.name = "execute_tool"

\* C7: for every registered tool name and every argument set, execute_tool
\* returns a string and never raises.
C7_ExecuteToolNeverRaises ==
    (IsExecute(op) /\ op.registered) => ~op.raised

\* C8: a failure of the retrieval during CourseSearchTool.execute, reported in
\* the result's error field or raised by the store's search, comes back as a
\* returned error string and is never raised to the caller.
C8_SearchFailureIsReturned ==
    (/\ IsExecute(op)
     /\ op.registered
     /\ ToolKind(op.tool) = "search"
     /\ op.out.kind \in {"raise", "error"})
    => ~op.raised

\* C9: execute_tool with a name that is not registered returns
\* "Tool '<name>' not found", does not raise, and leaves the registry and
\* every tool's last_sources as they were.
C9_UnknownToolNotFound ==
    [][(IsExecute(op') /\ ~op'.registered)
       => /\ ~op'.raised
          /\ op'.value = <<"Tool '", op'.tool_name, "' not found">>
          /\ op'.out = NoOutcome
          /\ tools' = tools
          /\ last_sources' = last_sources]_vars

C9_Witness ==
    /\ IsExecute(op)
    /\ ~op.registered
    /\ tools # <<>>
    /\ \E t \in SourceTools : last_sources[t] # <<>>

\* C10: register_tool with a tool whose definition has no name, or an empty
\* one, raises ValueError and leaves the registered tools as they were.
C10_RegisterWithoutNameFails ==
    [][(op'.name = "register_tool" /\ DefinitionName(op'.tool) \in {"None", ""})
       => /\ op'.raised
          /\ op'.value = <<"ValueError">>
          /\ tools' = tools]_vars

C10_Witness ==
    /\ op.name = "register_tool"
    /\ DefinitionName(op.tool) = ""
    /\ op.raised
    /\ tools # <<>>

\* C11: register_tool with a tool whose declared name is already registered
\* raises, and the tool registered under that name before stays bound to it.
C11_DuplicateNameRejected ==
    [][(op'.name = "register_tool" /\ DefinitionName(op'.tool) \in Keys(tools))
       => /\ op'.raised
          /\ tools' = tools]_vars

\* A direct execute_tool call that reached the search tool and got a result
\* set with at least one chunk.
IsSearchWithResults(o) ==
    /\ IsExecute(o)
    /\ o.registered
    /\ ToolKind(o.tool) = "search"
    /\ o.out.kind = "ok"
    /\ o.out.chunks # <<>>

\* The citation text the documentation gives for a (course, lesson) pair.
CitationText(pair) ==
    IF pair[2] = "None" THEN <<pair[1]>> ELSE <<pair[1], " - Lesson ", pair[2]>>

\* The (course_title, lesson_number) pairs of a result set.
Pairs(chunks) == {<<chunks[i].course_title, chunks[i].lesson_number>> : i \in 1..Len(chunks)}

\* C12: after a search whose k chunks span d distinct (course_title,
\* lesson_number) pairs, the tool's last citations have exactly d entries,
\* one per pair and no two for the same pair, with text "<course_title>" for
\* an absent lesson and "<course_title> - Lesson <n>" otherwise.
C12_CitationsOnePerPair ==
    IsSearchWithResults(op) =>
        LET cited == last_sources[op.tool]
            pairs == Pairs(op.out.chunks)
        IN /\ Len(cited) = Cardinality(pairs)
           /\ \A p \in pairs :
                 Cardinality({i \in 1..Len(cited) : cited[i].text = CitationText(p)}) = 1
           /\ \A i \in 1..Len(cited) : \E p \in pairs : cited[i].text = CitationText(p)

\* Two chunks of the same lesson and one citation.
C12_Witness ==
    /\ IsSearchWithResults(op)
    /\ Len(op.out.chunks) = 2
    /\ Cardinality(Pairs(op.out.chunks)) = 1
    /\ op.out.chunks[1] # op.out.chunks[2]
    /\ Len(last_sources[op.tool]) = 1

\* C13: a search with a non-empty result set replaces the tool's last
\* citations by those of that search only (an earlier citation is still there
\* only if the new result set contains its pair), and changes nothing else:
\* not the registry, not another tool's last citations.
C13_SearchReplacesCitations ==
    [][IsSearchWithResults(op')
       => LET t == op'.tool
              fresh == {CitationText(p) : p \in Pairs(op'.out.chunks)}
          IN /\ Texts(last_sources'[t]) = fresh
             /\ \A x \in Texts(last_sources[t]) :
                   x \in Texts(last_sources'[t]) => x \in fresh
             /\ Len(last_sources'[t]) = Cardinality(fresh)
             /\ \A u \in SourceTools \ {t} : last_sources'[u] = last_sources[u]
             /\ tools' = tools
             /\ UNCHANGED engineVars]_vars

\* A search made while the tool held a citation of another lesson, which is
\* gone afterwards.
C13_Witness ==
    /\ IsSearchWithResults(op)
    /\ \E x \in Texts(op.sources_before[op.tool]) :
          x \notin Texts(last_sources[op.tool])

\* A direct execute_tool call of either tool whose course name resolved to no
\* catalog title: the store's search reported it, or _resolve_course_name
\* returned nothing.
NameUnresolved(o) ==
    /\ IsExecute(o)
    /\ o.registered
    /\ \/ /\ ToolKind(o.tool) = "search"
          /\ o.out.kind = "error"
          /\ Resolvable(Arg(o.kwargs, "course_name")) = {}
          /\ o.out.error = <<"No course found matching '", Arg(o.kwargs, "course_name"), "'">>
       \/ /\ ToolKind(o.tool) = "outline"
          /\ o.out.kind = "unresolved"

\* C14: either tool, given a course name that resolves to no catalog title,
\* returns a text that starts with "No course found" and does not raise, asks
\* the store for nothing after the failed resolution, and leaves the last
\* citations of every tool as they were.
C14_UnresolvedCourse ==
    [][NameUnresolved(op')
       => /\ ~op'.raised
          /\ op'.value[1] = "No course found matching '"
          /\ op'.store_calls \in {<<"search">>, <<"_resolve_course_name">>}
          /\ last_sources' = last_sources]_vars

\* The outline tool asked for an unknown course while citations are held.
C14_Witness ==
    /\ NameUnresolved(op)
    /\ ToolKind(op.tool) = "outline"
    /\ \E t \in SourceTools : last_sources[t] # <<>>

\* A direct execute_tool call that reached the search tool and got an empty
\* result set without error.
IsEmptySearch(o) ==
    /\ IsExecute(o)
    /\ o.registered
    /\ ToolKind(o.tool) = "search"
    /\ o.out.kind = "ok"
    /\ o.out.chunks = <<>>

Mentions(text, part) == \E i \in 1..Len(text) : text[i] = part

\* C15: for an empty result set without error the returned text starts with
\* "No relevant content found", names the course filter exactly when a
\* course_name was given and the lesson filter exactly when a lesson_number
\* was given, whatever its value; without filters it is exactly
\* "No relevant content found.".
C15_EmptyResultNamesFilters ==
    IsEmptySearch(op) =>
        LET course_name == Arg(op.kwargs, "course_name")
            lesson_number == Arg(op.kwargs, "lesson_number")
        IN /\ ~op.raised
           /\ op.value[1] = "No relevant content found"
           /\ Mentions(op.value, " in course '") <=> course_name # "None"
           /\ Mentions(op.value, " in lesson ") <=> lesson_number # "None"
           /\ (course_name = "None" /\ lesson_number = "None")
                 => op.value = <<"No relevant content found", ".">>

\* The parts of a text between the occurrences of a separator.
RECURSIVE Split(_, _)
Split(text, sep) ==
    IF text = <<>> THEN << <<>> >>
    ELSE LET rest == Split(Tail(text), sep)
         IN IF Head(text) = sep THEN << <<>> >> \o rest
            ELSE << <<Head(text)>> \o rest[1] >> \o Tail(rest)

\* The block the documentation gives for one chunk: its header, then its text.
Block(chunk) ==
    (IF chunk.lesson_number = "None"
     THEN <<"[", chunk.course_title, "]">>
     ELSE <<"[", chunk.course_title, " - Lesson ", chunk.lesson_number, "]">>)
    \o <<"\n", chunk.doc>>

\* C16: for a result set of k >= 1 chunks the returned text is k blocks
\* separated by blank lines, the i-th being the header of chunk i
\* ("[<course_title>]", or "[<course_title> - Lesson <n>]" when the chunk has
\* a lesson number) followed by the text of chunk i.
C16_BlocksInResultOrder ==
    IsSearchWithResults(op) =>
        LET blocks == Split(op.value, "\n\n")
        IN /\ ~op.raised
           /\ Len(blocks) = Len(op.out.chunks)
           /\ \A i \in 1..Len(blocks) : blocks[i] = Block(op.out.chunks[i])

\* Two chunks, the first with a lesson number and the second without.
C16_Witness ==
    /\ IsSearchWithResults(op)
    /\ Len(op.out.chunks) = 2
    /\ op.out.chunks[1].lesson_number # "None"
    /\ op.out.chunks[2].lesson_number = "None"
    /\ Mentions(op.value, "\n\n")

\* A direct execute_tool call that reached the outline tool.
IsOutline(o) ==
    /\ IsExecute(o)
    /\ o.registered
    /\ ToolKind(o.tool) = "outline"
    /\ o.out # NoOutcome

\* ... and got a catalog record whose lesson list decodes.
IsOutlineOfRecord(o) ==
    /\ IsOutline(o)
    /\ o.out.kind = "record"
    /\ o.out.metadata.lessons_json.decodes

\* The number a lesson-number text denotes.
NumOf(text) == CHOOSE n \in 0..9 : NumStr(n) = text

\* Where the lesson lines of an outline start.
LessonLineStarts(text) == {i \in 1..Len(text) : text[i] = "  Lesson "}

\* C17: the outline of a course with n stored lessons states
\* "Total Lessons: n" and has exactly n lesson lines "Lesson <num>: <title>",
\* one per stored lesson, in ascending order of lesson number whatever the
\* order in which the record stores them.
C17_OutlineLessonsAscending ==
    IsOutlineOfRecord(op) =>
        LET lessons == op.out.metadata.lessons_json.lessons
            starts == LessonLineStarts(op.value)
        IN /\ ~op.raised
           /\ \E i \in 1..(Len(op.value) - 1) :
                 /\ op.value[i] = "\nTotal Lessons: "
                 /\ op.value[i + 1] = NumStr(Len(lessons))
           /\ Cardinality(starts) = Len(lessons)
           /\ {<<op.value[i + 1], op.value[i + 2], op.value[i + 3]>> : i \in starts}
                 = {<<lessons[k].lesson_number, ": ", lessons[k].lesson_title>> :
                       k \in 1..Len(lessons)}
           /\ \A i, j \in starts :
                 i < j => NumOf(op.value[i + 1]) < NumOf(op.value[j + 1])

\* C18: an execution of the outline tool, whatever its outcome, produces no
\* citations: the tool holds none, and the last citations of every tool, and
\* so what get_last_sources returns, are what they were before.
C18_OutlineLeavesCitations ==
    [][(IsExecute(op') /\ op'.registered /\ ToolKind(op'.tool) = "outline")
       => /\ ~HasLastSources(op'.tool)
          /\ last_sources' = last_sources
          /\ GetLastSources(tools', last_sources') = GetLastSources(tools, last_sources)
          /\ tools' = tools]_vars

\* An outline was produced while the search tool holds citations.
C18_Witness ==
    /\ IsOutlineOfRecord(op)
    /\ GetLastSources(tools, last_sources) # <<>>

\* The catalog record is missing, its metadata is empty, or its lesson list
\* cannot be decoded.
RecordUnusable(out) ==
    \/ out.kind \in {"get_none", "get_empty"}
    \/ out.kind = "record" /\ ~out.metadata.lessons_json.decodes

\* The store failed: while resolving the name or while fetching the record.
StoreFailed(out) == out.kind \in {"resolve_raise", "get_raise"}

\* C19: the outline tool returns a text that describes the error, and does
\* not raise, when the catalog record is missing, has empty metadata or has a
\* lesson list that cannot be decoded; and it does not raise when the store
\* fails, be it while the course name is resolved.
C19_OutlineNeverRaises ==
    IsOutline(op) =>
        /\ RecordUnusable(op.out)
              => /\ ~op.raised
                 /\ op.value[1] \in {"Error retrieving metadata for course: ",
                                     "Error retrieving course outline: "}
        /\ StoreFailed(op.out) => ~op.raised

\* The positions, in registration order, of the tools that hold citations.
Holders(reg, ls) ==
    {i \in 1..Len(reg) : reg[i][2] \in DOMAIN ls /\ ls[reg[i][2]] # <<>>}

\* C20: get_last_sources returns the last citations of the first tool, in
\* registration order, that holds any, and the empty list when no registered
\* tool holds any (so before any search); it changes no tool and not the
\* registry.
C20_FirstNonEmptyCitations ==
    [][op'.name = "get_last_sources"
       => LET holding == Holders(tools, last_sources)
          IN /\ ~op'.raised
             /\ holding = {} => op'.value = <<>>
             /\ \A i \in holding :
                   (\A j \in holding : i <= j) => op'.value = last_sources[tools[i][2]]
             /\ last_sources' = last_sources
             /\ tools' = tools]_vars

\* Two registered tools hold different citations and the first one's came back.
C20_Witness ==
    /\ op.name = "get_last_sources"
    /\ \E i, j \in Holders(tools, last_sources) :
          /\ i < j
          /\ last_sources[tools[i][2]] # last_sources[tools[j][2]]
          /\ op.value = last_sources[tools[i][2]]

\* A direct execute_tool call after which the executed tool holds citations
\* of that call: a search with a non-empty result set, or a run of the
\* other source-tracking tool.
StoresCitations(o) ==
    /\ IsExecute(o)
    /\ o.registered
    /\ HasLastSources(o.tool)
    /\ ToolKind(o.tool) = "search" => IsSearchWithResults(o)

\* C21: reset_sources leaves get_last_sources empty, whatever was searched
\* before, and changes nothing but last citations (the registered tools are
\* the same); and get_last_sources stays empty after it until a search with
\* a non-empty result set.
C21_EmptyAfterReset ==
    [][/\ op'.name = "reset_sources"
          => /\ GetLastSources(tools', last_sources') = <<>>
             /\ tools' = tools
             /\ UNCHANGED engineVars
       /\ (op.name = "reset_sources" /\ ~StoresCitations(op'))
          => GetLastSources(tools', last_sources') = <<>>]_vars

\* The positions of a result list at which a (course, lesson) pair occurs
\* for the first time, and the i-th of them.
FirstOccurrences(chunks) ==
    {j \in 1..Len(chunks) :
        \A k \in 1..(j - 1) :
            <<chunks[k].course_title, chunks[k].lesson_number>>
            # <<chunks[j].course_title, chunks[j].lesson_number>>}
NthFirst(chunks, i) ==
    CHOOSE j \in FirstOccurrences(chunks) :
        Cardinality({k \in FirstOccurrences(chunks) : k <= j}) = i

\* C32: in the last citations of a search the entries are in the order in
\* which their (course, lesson) pairs first occur in the result list, and the
\* url of each is the lesson link of that first chunk: absent when that chunk
\* has no link, whatever link a later chunk of the pair has.
C32_CitationsFollowFirstChunk ==
    IsSearchWithResults(op) =>
        LET cited == last_sources[op.tool]
            chunks == op.out.chunks
        IN /\ Len(cited) = Cardinality(FirstOccurrences(chunks))
           /\ \A i \in 1..Len(cited) :
                 LET first == chunks[NthFirst(chunks, i)]
                 IN /\ cited[i].text =
                          CitationText(<<first.course_title, first.lesson_number>>)
                    /\ IF first.lesson_link \in {"None", ""}
                       THEN "url" \notin DOMAIN cited[i]
                       ELSE "url" \in DOMAIN cited[i] /\ cited[i].url = first.lesson_link

\* Two chunks of one lesson, the first without a link and the second with
\* one: the one citation has no url.
C32_Witness ==
    /\ IsSearchWithResults(op)
    /\ Len(op.out.chunks) = 2
    /\ Cardinality(Pairs(op.out.chunks)) = 1
    /\ op.out.chunks[1].lesson_link = "None"
    /\ op.out.chunks[2].lesson_link = "u1"
    /\ Len(last_sources[op.tool]) = 1
    /\ "url" \notin DOMAIN last_sources[op.tool][1]

\* A direct execute_tool call that entered CourseSearchTool.execute.
IsSearchExecuted(o) ==
    /\ IsExecute(o)
    /\ o.registered
    /\ ToolKind(o.tool) = "search"
    /\ Binds(o.kwargs, SearchParams, {"query"})

\* C36: after every CourseSearchTool.execute call the tool's last citations
\* are exactly the citations of that call's result set: those of its chunks
\* for a non-empty result, and none after a call that returned an error string
\* or a "No relevant content found" message.
C36_CitationsOfThisCall ==
    IsSearchExecuted(op) =>
        last_sources[op.tool] =
            IF op.out.kind = "ok" THEN Sources(op.out.chunks, Len(op.out.chunks))
            ELSE <<>>

\* ========================================== sessions and the query layer
\* config.MAX_HISTORY: the exchanges kept for one session.
MAX_HISTORY == 2

Exchange(user, assistant) == [user |-> user, assistant |-> assistant]

\* A plausible slip: the oldest n are kept instead of the latest n.
KeepLast_Oldest(seq, n) == IF Len(seq) <= n THEN seq ELSE SubSeq(seq, 1, n)

\* The last n elements of a sequence.
KeepLast(seq, n) ==
    IF Len(seq) <= n THEN seq ELSE SubSeq(seq, Len(seq) - n + 1, Len(seq))

\* A plausible slip: the history is never trimmed.
AddExchange_NoTrim(history, user, assistant) == Append(history, Exchange(user, assistant))

\* append(sessionId, userText, assistantText) on one session's history.
AddExchange(history, user, assistant) ==
    KeepLast(Append(history, Exchange(user, assistant)), MAX_HISTORY)

\* render(sessionId): the flattened transcript, or None for no history.
RECURSIVE Flattened(_, _)
Flattened(history, n) ==
    IF n = 0 THEN <<>>
    ELSE (IF n = 1 THEN <<>> ELSE Flattened(history, n - 1) \o <<"\n">>)
         \o <<"User: ">> \o history[n].user \o <<"\n", "AI: ">> \o history[n].assistant

Render(history) == IF history = <<>> THEN NoneText ELSE Flattened(history, Len(history))

\* A plausible slip: one history is kept for all session ids.
SessionKey_Shared(session_id) == "A"

\* The store a session id is keyed to.
SessionKey(session_id) == session_id

\* The text of the n-th query made, and of the answer generated for a query.
Question(n) == <<"question ", NumStr(n)>>
AnswerTo(query) == <<"answer to ">> \o query

\* What the search tool's store returns to a search requested during a query.
QueryOutcomes ==
    {out \in SearchOutcomes("None", "None") :
        /\ out.kind = "ok"
        /\ Len(out.chunks) <= 1
        /\ \A j \in 1..Len(out.chunks) : Truthy(out.chunks[j].lesson_link)}

\* query(text, sessionId?) begins: the session's history is rendered and the
\* engine is called.  `alone` notes whether the request overlaps no other,
\* `clean` whether the registry held no citations when it began.
QueryBegin(r, session_id) ==
    /\ reqs[r].pc = "idle"
    /\ asked < MaxQueries
    /\ asked' = asked + 1
    /\ reqs' = [x \in Requests |->
          IF x = r
          THEN [pc |-> "generate", query |-> Question(asked + 1),
                session_id |-> session_id,
                history |-> IF session_id = "None" THEN NoneText
                            ELSE Render(sessions[SessionKey(session_id)]),
                response |-> NoneText, sources |-> <<>>, searched |-> FALSE,
                produced |-> <<>>, outcome |-> "none",
                alone |-> \A o \in Requests \ {r} : reqs[o].pc = "idle",
                clean |-> GetLastSources(tools, last_sources) = <<>>]
          ELSE IF reqs[x].pc = "idle" THEN reqs[x]
          ELSE [reqs[x] EXCEPT !.alone = FALSE]]
    /\ UNCHANGED <<tools, last_sources, op, engineVars, sessions, appended>>

\* During generation the model requests a search, which the engine executes
\* through the shared tool manager.
QuerySearch(r, out) ==
    LET kwargs == [query |-> "q"]
    IN /\ reqs[r].pc = "generate"
       /\ ~reqs[r].searched
       /\ last_sources' = ExecuteToolSources(tools, last_sources, SearchName, kwargs, out)
       /\ reqs' = [reqs EXCEPT ![r].searched = TRUE,
                               ![r].produced = StoredSources(tools, SearchName, kwargs, out)]
       /\ UNCHANGED <<tools, op, engineVars, sessions, appended, asked>>

\* generate_response returns the answer.
QueryAnswered(r) ==
    /\ reqs[r].pc = "generate"
    /\ reqs' = [reqs EXCEPT ![r].pc = "collect", ![r].response = AnswerTo(reqs[r].query)]
    /\ UNCHANGED <<tools, last_sources, op, engineVars, sessions, appended, asked>>

\* What is left of a request that ended: how it ended, the citations it
\* returned and those its own tool executions had produced.
Ended(q, outcome) ==
    [NoRequest EXCEPT !.outcome = outcome, !.sources = q.sources, !.produced = q.produced]

\* A plausible slip: the exchange is recorded although generation raised.
QueryFails_Appends(r) ==
    LET q == reqs[r]
    IN /\ q.pc = "generate"
       /\ IF q.session_id = "None"
          THEN UNCHANGED <<sessions, appended>>
          ELSE /\ sessions' = [sessions EXCEPT ![SessionKey(q.session_id)] =
                                  AddExchange(@, q.query, q.response)]
               /\ appended' = [appended EXCEPT ![q.session_id] =
                                  Append(@, Exchange(q.query, q.response))]
       /\ reqs' = [reqs EXCEPT ![r] = Ended(q, "raised")]
       /\ UNCHANGED <<tools, last_sources, op, engineVars, asked>>

\* generate_response raises (a model-API error): query raises it on.
QueryFails(r) ==
    /\ reqs[r].pc = "generate"
    /\ reqs' = [reqs EXCEPT ![r] = Ended(reqs[r], "raised")]
    /\ UNCHANGED <<tools, last_sources, op, engineVars, sessions, appended, asked>>

\* The citations are read from the tool manager ...
QueryCollect(r) ==
    /\ reqs[r].pc = "collect"
    /\ reqs' = [reqs EXCEPT ![r].pc = "reset",
                            ![r].sources = GetLastSources(tools, last_sources)]
    /\ UNCHANGED <<tools, last_sources, op, engineVars, sessions, appended, asked>>

\* ... and cleared.
QueryReset(r) ==
    /\ reqs[r].pc = "reset"
    /\ last_sources' = ResetSourcesOf(tools, last_sources)
    /\ reqs' = [reqs EXCEPT ![r].pc = "append"]
    /\ UNCHANGED <<tools, op, engineVars, sessions, appended, asked>>

\* The exchange is appended to the session's history (if a session id was
\* given) and query returns the answer and the citations.
QueryReturn(r) ==
    LET q == reqs[r]
    IN /\ q.pc = "append"
       /\ IF q.session_id = "None"
          THEN UNCHANGED <<sessions, appended>>
          ELSE /\ sessions' = [sessions EXCEPT ![SessionKey(q.session_id)] =
                                  AddExchange(@, q.query, q.response)]
               /\ appended' = [appended EXCEPT ![q.session_id] =
                                  Append(@, Exchange(q.query, q.response))]
       /\ reqs' = [reqs EXCEPT ![r] = Ended(q, "returned")]
       /\ UNCHANGED <<tools, last_sources, op, engineVars, asked>>

InitQuery ==
    /\ StandardRegistry
    /\ MAX_TOOL_ROUNDS = 2
    /\ EngineIdle
    /\ QueryIdle

NextQuery ==
    \E r \in Requests :
        \/ \E session_id \in SessionIds \cup {"None"} : QueryBegin(r, session_id)
        \/ \E out \in QueryOutcomes : QuerySearch(r, out)
        \/ QueryAnswered(r)
        \/ QueryFails(r)
        \/ QueryCollect(r)
        \/ QueryReset(r)
        \/ QueryReturn(r)

SpecQuery == InitQuery /\ [][NextQuery]_vars

\* ============================================ properties of the query layer
InFlight(q) == q.pc # "idle"

\* No text appended under session id b occurs in the text `history`.
FreeOf(history, b) ==
    \A i \in 1..Len(appended[b]) :
        /\ ~Contains(history, appended[b][i].user)
        /\ ~Contains(history, appended[b][i].assistant)

\* C24: however requests on different session ids follow one another or
\* interleave, the history rendered for a session contains no text appended
\* under another session id, and an append under one session id leaves the
\* history of every other session as it was.
C24_SessionsIsolated ==
    /\ [](\A a, b \in SessionIds :
             a # b => /\ FreeOf(Render(sessions[a]), b)
                      /\ \A r \in Requests :
                            (InFlight(reqs[r]) /\ reqs[r].session_id = a)
                            => FreeOf(reqs[r].history, b))
    /\ [][\A a \in SessionIds :
             sessions'[a] # sessions[a]
             => \E r \in Requests : reqs[r].pc = "append" /\ reqs[r].session_id = a
                                    /\ ~InFlight(reqs'[r])]_vars

\* A request on session A holds A's rendered history while B has history too.
C24_Witness ==
    /\ sessions["B"] # <<>>
    /\ \E r \in Requests :
          /\ reqs[r].pc = "generate"
          /\ reqs[r].session_id = "A"
          /\ reqs[r].history # NoneText

QuestionRendered(sid, i) == Contains(Render(sessions[sid]), appended[sid][i].user)

Returns(r) == reqs[r].pc = "append" /\ reqs'[r].outcome = "returned"

\* C27: when a query that overlapped no other returns normally, the
\* registry holds no citations (get_last_sources is empty): the citations its
\* searches produced were read, are returned, and were cleared before the
\* next query begins.
C27_CitationsClearedAfterQuery ==
    [][\A r \in Requests :
          (Returns(r) /\ reqs[r].alone)
          => /\ GetLastSources(tools', last_sources') = <<>>
             /\ reqs[r].produced # <<>> => reqs'[r].sources = reqs[r].produced]_vars

\* A query returned the citations of its search and the registry is empty.
C27_Witness ==
    \E r \in Requests :
        /\ reqs[r].outcome = "returned"
        /\ reqs[r].produced # <<>>
        /\ reqs[r].sources = reqs[r].produced
        /\ GetLastSources(tools, last_sources) = <<>>
        /\ \A o \in Requests : ~InFlight(reqs[o])

\* The step in which request r ends, normally or by raising.
Ends(r) == InFlight(reqs[r]) /\ ~InFlight(reqs'[r])

\* C31: a query made with a session id appends exactly one exchange, its
\* question and the answer it returns, to that session's history and to no
\* other, in the step in which it returns and so after generation succeeded;
\* a query made without a session id and a query whose generation raises
\* change no session's history, and nothing else ever changes a history.
C31_OneExchangePerQuery ==
    [][/\ \A r \in Requests :
             Ends(r)
             => LET q == reqs[r]
                    sid == q.session_id
                IN IF Returns(r) /\ sid # "None"
                   THEN /\ q.response = AnswerTo(q.query)
                        /\ appended' = [appended EXCEPT ![sid] =
                              Append(@, [user |-> q.query, assistant |-> q.response])]
                        /\ sessions'[sid] # <<>>
                        /\ sessions'[sid][Len(sessions'[sid])] =
                              [user |-> q.query, assistant |-> q.response]
                        /\ \A o \in SessionIds \ {sid} : sessions'[o] = sessions[o]
                   ELSE sessions' = sessions /\ appended' = appended
       /\ (\A r \in Requests : ~Ends(r))
          => sessions' = sessions /\ appended' = appended]_vars

\* Three queries were made and ended, one of them raised, and the only
\* history there is holds the one exchange of the first query.
C31_Witness ==
    /\ asked = 3
    /\ \A r \in Requests : ~InFlight(reqs[r])
    /\ \E r \in Requests : reqs[r].outcome = "raised"
    /\ sessions["A"] = <<[user |-> Question(1), assistant |-> AnswerTo(Question(1))]>>
    /\ sessions["B"] = <<>>

\* C38: across queries made one after another, also when some of them failed
\* with a model-API error after a search had run, the citation list a query
\* returns contains only citations produced by tool executions of that query.
C38_OnlyOwnCitationsInSequence ==
    [][\A r \in Requests :
          (Returns(r) /\ reqs[r].alone)
          => Texts(reqs'[r].sources) \subseteq Texts(reqs[r].produced)]_vars

\* C39: when two query requests interleave on the same tool registry, the
\* citation list each request returns is that of its own tool executions:
\* it holds nothing the other request produced, and nothing of its own was
\* overwritten or cleared by the other.  (Stated for requests that began with
\* an empty registry, so that nothing but the interleaving is involved.)
C39_InterleavedRequestsKeepOwnCitations ==
    [][\A r \in Requests :
          (Returns(r) /\ reqs[r].clean)
          => reqs'[r].sources = reqs[r].produced]_vars

====
